---- MODULE Spec2Model ----
(***************************************************************************)
(* Model of the GET-only HTTP listener: the CRLF line reader (util.go),    *)
(* the request parser (ReadRequest) and the per-connection loop            *)
(* (Server.HandleConnection).                                              *)
(*                                                                         *)
(* A Go string is a sequence of one-character strings.  A *bufio.Reader is *)
(* the record [buf, err]: the bytes not yet consumed and the error the     *)
(* underlying stream reports once they are used up.                        *)
(***************************************************************************)
EXTENDS Integers, Sequences, FiniteSets, TLC

VARIABLES input, br, rl, rr, conn, srv, conns

vars == <<input, br, rl, rr, conn, srv, conns>>

----------------------------------------------------------------------------
(* Bounds *)

\* longest byte stream handed to the line reader
MaxLen == 5
\* largest number of line segments a request stream is assembled from
MaxSegs == 4
\* largest number of connections the listener accepts
MaxConns == 2

----------------------------------------------------------------------------
(* Strings *)

CR == "\r"
LF == "\n"
SP == " "
CRLF == <<CR, LF>>
GET == <<"G", "E", "T">>

\* the bytes the line reader is exercised on
Bytes == {"a", SP, CR, LF}

RECURSIVE StringsUpTo(_)
StringsUpTo(n) ==
    IF n = 0 THEN {<<>>}
    ELSE LET S == StringsUpTo(n - 1)
         IN  S \cup {Append(s, b) : s \in {t \in S : Len(t) = n - 1}, b \in Bytes}

HasSuffix(s, suffix) ==
    /\ Len(s) >= Len(suffix)
    /\ SubSeq(s, Len(s) - Len(suffix) + 1, Len(s)) = suffix

\* index of the first occurrence of byte b in s, 0 when there is none
IndexByte(s, b) ==
    LET At == {i \in 1..Len(s) : s[i] = b}
    IN  IF At = {} THEN 0 ELSE CHOOSE i \in At : \A j \in At : i <= j

----------------------------------------------------------------------------
(* Errors *)

NoErr == [kind |-> "nil"]
EOF == [kind |-> "EOF"]
ErrTimeout == [kind |-> "timeout"]
ErrIO == [kind |-> "io"]

\* what a stream can report when it has no more bytes
StreamErrs == {EOF, ErrTimeout, ErrIO}

----------------------------------------------------------------------------
(* Line reader *)

NewReader(s, e) == [buf |-> s, err |-> e]

\* a reader that loses the bytes read before the error
ReadStringDropsPartial(b, delim) ==
    LET i == IndexByte(b.buf, delim)
    IN  IF i > 0
        THEN [s |-> SubSeq(b.buf, 1, i), err |-> NoErr,
              br |-> [b EXCEPT !.buf = SubSeq(b.buf, i + 1, Len(b.buf))]]
        ELSE [s |-> <<>>, err |-> b.err, br |-> [b EXCEPT !.buf = <<>>]]

\* br.ReadString('\n'): the bytes up to and including the first delim, or
\* everything that is left together with the stream's error
ReadString(b, delim) ==
    LET i == IndexByte(b.buf, delim)
    IN  IF i > 0
        THEN [s |-> SubSeq(b.buf, 1, i), err |-> NoErr,
              br |-> [b EXCEPT !.buf = SubSeq(b.buf, i + 1, Len(b.buf))]]
        ELSE [s |-> b.buf, err |-> b.err, br |-> [b EXCEPT !.buf = <<>>]]

\* a line reader that takes a bare "\n" for a line end
LineEndBareLF(line) == HasSuffix(line, <<LF>>)

\* the test that ends ReadLine's loop
LineEnd(line) == HasSuffix(line, CRLF)

RECURSIVE ReadLineLoop(_, _)
ReadLineLoop(line0, b) ==
    LET r == ReadString(b, LF)
        line == line0 \o r.s
    IN  IF r.err # NoErr
        THEN [line |-> line, err |-> r.err, br |-> r.br]
        ELSE IF LineEnd(line)
             THEN [line |-> SubSeq(line, 1, Len(line) - 2), err |-> NoErr, br |-> r.br]
             ELSE ReadLineLoop(line, r.br)

ReadLine(b) == ReadLineLoop(<<>>, b)

----------------------------------------------------------------------------
(* Request parser *)

NilReq == [ptr |-> "nil"]

\* strconv.Quote as used by %q, on the bytes that occur here
QuoteByte(c) ==
    IF c = CR THEN <<"\\", "r">>
    ELSE IF c = LF THEN <<"\\", "n">>
    ELSE <<c>>

RECURSIVE Quote(_)
Quote(s) ==
    IF s = <<>> THEN <<"\"">>
    ELSE IF Len(s) = 1 THEN QuoteByte(s[1]) \o <<"\"">>
    ELSE QuoteByte(s[1]) \o Quote(Tail(s))

\* fmt.Errorf("%s %q", what, val)
badStringError(what, val) ==
    [kind |-> "errorString", what |-> what, val |-> <<"\"">> \o Quote(val)]

\* strings.Split(line, " ") cut down to what its length decides: a third
\* field as soon as the line has a second space
SplitNoLimit(line) ==
    LET i == IndexByte(line, SP)
        rest == SubSeq(line, i + 1, Len(line))
        j == IndexByte(rest, SP)
    IN  IF i = 0 THEN <<line>>
        ELSE IF j = 0 THEN <<SubSeq(line, 1, i - 1), rest>>
        ELSE <<SubSeq(line, 1, i - 1), SubSeq(rest, 1, j - 1),
               SubSeq(rest, j + 1, Len(rest))>>

\* strings.SplitN(line, " ", 2)
SplitN2(line) ==
    LET i == IndexByte(line, SP)
    IN  IF i = 0 THEN <<line>>
        ELSE <<SubSeq(line, 1, i - 1), SubSeq(line, i + 1, Len(line))>>

\* a parse that also wants both fields non-empty
parseRequestLineNonEmpty(line) ==
    LET fields == SplitN2(line)
    IN  IF Len(fields) # 2 \/ fields[1] = <<>> \/ fields[2] = <<>>
        THEN [method |-> <<>>,
              err |-> [kind |-> "errorString",
                       what |-> "could not parse the request line, got fields",
                       val |-> <<"[">> \o line \o <<"]">>]]
        ELSE [method |-> fields[1], err |-> NoErr]

parseRequestLine(line) ==
    LET fields == SplitN2(line)
    IN  IF Len(fields) # 2
        THEN [method |-> <<>>,
              err |-> [kind |-> "errorString",
                       what |-> "could not parse the request line, got fields",
                       val |-> <<"[">> \o line \o <<"]">>]]
        ELSE [method |-> fields[1], err |-> NoErr]

\* a validation that only looks at the first three bytes
validMethodPrefix(method) == Len(method) >= 3 /\ SubSeq(method, 1, 3) = GET

validMethod(method) == method = GET

\* a header loop that takes the end of the stream for the end of the headers
RECURSIVE SkipHeadersUntilEOF(_)
SkipHeadersUntilEOF(b) ==
    LET r == ReadLine(b)
    IN  IF r.err = EOF THEN [err |-> NoErr, br |-> r.br]
        ELSE IF r.err # NoErr THEN [err |-> r.err, br |-> r.br]
        ELSE IF r.line = <<>> THEN [err |-> NoErr, br |-> r.br]
        ELSE SkipHeadersUntilEOF(r.br)

\* a header loop that reads one line and stops
SkipHeadersOneLine(b) ==
    LET r == ReadLine(b)
    IN  [err |-> r.err, br |-> r.br]

\* the loop of ReadRequest that reads lines up to the empty one
RECURSIVE SkipHeaders(_)
SkipHeaders(b) ==
    LET r == ReadLine(b)
    IN  IF r.err # NoErr THEN [err |-> r.err, br |-> r.br]
        ELSE IF r.line = <<>> THEN [err |-> NoErr, br |-> r.br]
        ELSE SkipHeaders(r.br)

\* a parser that reports a failed start-line read as a malformed line
StartLineReadFailedAsMalformed(l) ==
    [req |-> NilReq, err |-> badStringError("malformed start line", l.line), br |-> l.br]

\* ReadRequest's return when reading the start line failed
StartLineReadFailed(l) == [req |-> NilReq, err |-> l.err, br |-> l.br]

\* a parser that reads the whole header block before it looks at the
\* start line
ReadRequestHeadersFirst(b) ==
    LET l == ReadLine(b)
    IN  IF l.err # NoErr
        THEN StartLineReadFailed(l)
        ELSE LET h == SkipHeaders(l.br)
                 p == parseRequestLine(l.line)
             IN  IF h.err # NoErr
                 THEN [req |-> NilReq, err |-> h.err, br |-> h.br]
                 ELSE IF p.err # NoErr
                 THEN [req |-> NilReq,
                       err |-> badStringError("malformed start line", l.line),
                       br |-> h.br]
                 ELSE IF ~validMethod(p.method)
                 THEN [req |-> NilReq,
                       err |-> badStringError("invalid method", p.method),
                       br |-> h.br]
                 ELSE [req |-> [ptr |-> "Request", Method |-> p.method],
                       err |-> NoErr, br |-> h.br]

ReadRequest(b) ==
    LET req0 == [ptr |-> "Request", Method |-> <<>>]
        l == ReadLine(b)
    IN  IF l.err # NoErr
        THEN StartLineReadFailed(l)
        ELSE LET p == parseRequestLine(l.line)
                 req == [req0 EXCEPT !.Method = p.method]
             IN  IF p.err # NoErr
                 THEN [req |-> NilReq,
                       err |-> badStringError("malformed start line", l.line),
                       br |-> l.br]
                 ELSE IF ~validMethod(req.Method)
                 THEN [req |-> NilReq,
                       err |-> badStringError("invalid method", req.Method),
                       br |-> l.br]
                 ELSE LET h == SkipHeaders(l.br)
                      IN  IF h.err # NoErr
                          THEN [req |-> NilReq, err |-> h.err, br |-> h.br]
                          ELSE [req |-> req, err |-> NoErr, br |-> h.br]

----------------------------------------------------------------------------
(* Responses *)

responseProto == "HTTP/1.1"
statusOK == 200
statusMethodNotAllowed == 405

\* a table that gives every code the reason of 200
statusTextAllOK == (statusOK :> "OK") @@ (statusMethodNotAllowed :> "OK")

statusText == (statusOK :> "OK") @@ (statusMethodNotAllowed :> "Method Not Allowed")

\* the decimal text %v prints for a status code
Itoa == (statusOK :> "200") @@ (statusMethodNotAllowed :> "405")

\* the Server value built in main
TheServer == [Addr |-> "localhost:8090", DocRoot |-> "server/static-files"]

\* &Response{}
ZeroResponse == [StatusCode |-> 0, Proto |-> "", FilePath |-> ""]

init(res) == [res EXCEPT !.Proto = responseProto]

HandleOK(res) == [init(res) EXCEPT !.StatusCode = statusOK]

\* a bad-request response prepared with the status of the good one
HandleBadRequestAsOK(res) ==
    [init(res) EXCEPT !.StatusCode = statusOK, !.FilePath = ""]

HandleBadRequest(res) ==
    [init(res) EXCEPT !.StatusCode = statusMethodNotAllowed, !.FilePath = ""]

HandleGoodRequest(s) ==
    [HandleOK(ZeroResponse) EXCEPT !.FilePath = <<s.DocRoot, "/", "hello-world.txt">>]

\* the status line Response.Write formats
StatusLine(res) ==
    <<res.Proto, " ",
      IF res.StatusCode \in DOMAIN Itoa THEN Itoa[res.StatusCode] ELSE "?", " ",
      IF res.StatusCode \in DOMAIN statusText THEN statusText[res.StatusCode] ELSE "",
      "\r\n">>

----------------------------------------------------------------------------
(* Connections *)

\* A connection is [running, closed, br, out, ev]: whether its handler is
\* still in its loop, whether Close was called, the handler's reader, the
\* status lines that reached the peer, and the calls made on it in order.
Event(op, arg, ok) == [op |-> op, arg |-> arg, ok |-> ok]

NewConn(s, e) ==
    [running |-> TRUE, closed |-> FALSE, br |-> NewReader(s, e),
     out |-> <<>>, ev |-> <<>>]

\* seconds added to time.Now() for the read deadline
readDeadlineSeconds == 5

\* a handler that returns and forgets to close the connection
ReturnWithoutClose(c) == [c EXCEPT !.running = FALSE]

\* conn.Close() followed by return
CloseAndReturn(c) ==
    [c EXCEPT !.closed = TRUE, !.running = FALSE,
              !.ev = Append(@, Event("close", <<>>, TRUE))]

\* res.Write(conn): the status line goes out unless the write or flush fails
Write(res, c, ok) ==
    [conn |-> [c EXCEPT !.out = IF ok THEN Append(@, StatusLine(res)) ELSE @,
                        !.ev = Append(@, Event("write", StatusLine(res), ok))],
     err |-> IF ok THEN NoErr ELSE ErrIO]

\* a handler that gives the connection up when the response cannot be written
CloseOnWriteError(c, err) ==
    IF err # NoErr THEN CloseAndReturn(c) ELSE c

\* the end of the loop body after a good request: the write error is
\* printed and the loop goes on
AfterGoodResponse(c, err) == c

\* a test for io.ErrUnexpectedEOF in place of io.EOF
IsUnexpectedEOF(err) == err = [kind |-> "unexpected EOF"]

\* errors.Is(err, io.EOF)
IsEOF(err) == err = EOF

\* a type assertion that no error of the connection satisfies
IsNotNetError(err) == FALSE

\* err.(net.Error) with err.Timeout()
IsTimeout(err) == err = ErrTimeout

\* one turn of the loop of HandleConnection; armOk and writeOk say whether
\* SetReadDeadline and the response write succeed
HandleConnectionLoop(s, c, armOk, writeOk) ==
    IF ~armOk
    THEN CloseAndReturn([c EXCEPT !.ev = Append(@, Event("deadline", readDeadlineSeconds, FALSE))])
    ELSE LET r == ReadRequest(c.br)
             c1 == [c EXCEPT !.br = r.br,
                             !.ev = @ \o <<Event("deadline", readDeadlineSeconds, TRUE),
                                           Event("read", r.err.kind, r.err = NoErr)>>]
         IN  IF IsEOF(r.err) THEN CloseAndReturn(c1)
             ELSE IF IsTimeout(r.err) THEN CloseAndReturn(c1)
             ELSE IF r.err # NoErr
             THEN CloseAndReturn(Write(HandleBadRequest(ZeroResponse), c1, writeOk).conn)
             ELSE LET w == Write(HandleGoodRequest(s), c1, writeOk)
                  IN  AfterGoodResponse(w.conn, w.err)

----------------------------------------------------------------------------
(* Listener *)

ErrNotExist == [kind |-> "not exist"]
ErrPermission == [kind |-> "permission"]

\* what os.Stat(s.DocRoot) can return: the file info of a directory or of
\* a file, or no file info and an error
StatResults ==
    { [fi |-> "dir", err |-> NoErr],
      [fi |-> "file", err |-> NoErr],
      [fi |-> "nil", err |-> ErrNotExist],
      [fi |-> "nil", err |-> ErrPermission] }

\* os.IsNotExist(err)
IsNotExist(err) == err = ErrNotExist

\* ValidateServerSetup on the result of the stat: the error it returns, or
\* the panic of fi.IsDir() on a nil file info
ValidateServerSetup(st) ==
    IF IsNotExist(st.err) THEN [panic |-> FALSE, err |-> st.err]
    ELSE IF st.fi = "nil" THEN [panic |-> TRUE, err |-> NoErr]
    ELSE IF st.fi # "dir"
    THEN [panic |-> FALSE,
          err |-> [kind |-> "errorString", what |-> "doc root is not a directory"]]
    ELSE [panic |-> FALSE, err |-> NoErr]

\* A listener is [pc, stat, err, bound, accept, failed, spawned]: where
\* ListenAndServe stands, the stat result it validated, the error it
\* returned, whether the address is bound, the outcome of the last Accept,
\* whether an Accept ever failed, and the connections a HandleConnection
\* task was started for.
NoServer ==
    [pc |-> "none", stat |-> [fi |-> "none", err |-> NoErr], err |-> NoErr,
     bound |-> FALSE, accept |-> "none", failed |-> FALSE, spawned |-> <<>>]

NewServer == [NoServer EXCEPT !.pc = "validate"]

\* a server that goes on to listen whatever the validation said
SetupErrorIgnored(v, r) == [v EXCEPT !.pc = IF r.panic THEN "panic" ELSE "listen"]

\* the first statement of ListenAndServe: return the wrapped error of the
\* validation, or go on to listen
SetupChecked(v, r) ==
    IF r.panic THEN [v EXCEPT !.pc = "panic"]
    ELSE IF r.err # NoErr
    THEN [v EXCEPT !.pc = "returned",
                   !.err = [kind |-> "errorString",
                            what |-> "server is not setup correctly", val |-> r.err]]
    ELSE [v EXCEPT !.pc = "listen"]

\* net.Listen and the check of its error
Listened(v, ok) ==
    IF ok THEN [v EXCEPT !.pc = "accept", !.bound = TRUE]
    ELSE [v EXCEPT !.pc = "returned", !.err = ErrIO]

\* an accept loop that gives up at the first failed Accept
AcceptErrorReturns(v) ==
    [v EXCEPT !.pc = "returned", !.err = ErrIO, !.accept = "failed", !.failed = TRUE]

\* a failed Accept: continue
AcceptFailed(v) == [v EXCEPT !.accept = "failed", !.failed = TRUE]

\* an Accept that gave connection number id: go s.HandleConnection(conn)
Accepted(v, id) == [v EXCEPT !.accept = "ok", !.spawned = Append(@, id)]

\* An accepted connection is [h, src, env]: the connection as its handler
\* has left it, the connection as it was accepted, and the outcomes of the
\* deadline and write calls of the handler's loop turns so far.
Accept1(s, e) == [h |-> NewConn(s, e), src |-> NewConn(s, e), env |-> <<>>]

\* one handler reading through the reader of the first connection
SharedReader(cs, i) == cs[1].h.br

\* br := bufio.NewReader(conn): each handler reads through a reader of its own
ReaderOf(cs, i) == cs[i].h.br

\* one loop turn of the handler of connection i
Served(cs, i, armOk, writeOk) ==
    LET c == [cs[i].h EXCEPT !.br = ReaderOf(cs, i)]
    IN  [cs EXCEPT ![i] = [@ EXCEPT !.h = HandleConnectionLoop(TheServer, c, armOk, writeOk),
                                    !.env = Append(@, <<armOk, writeOk>>)]]

----------------------------------------------------------------------------
(* State *)

NoCall == [called |-> FALSE, from |-> <<>>, line |-> <<>>, err |-> NoErr]

NoConn == [NewConn(<<>>, EOF) EXCEPT !.running = FALSE]

\* bytes consumed from the stream so far
Cursor(b) == Len(input) - Len(b.buf)

----------------------------------------------------------------------------
(* Line reader driven over every short byte stream *)

InitLine ==
    /\ srv = NoServer
    /\ conns = <<>>
    /\ input \in StringsUpTo(MaxLen)
    /\ \E e \in StreamErrs : br = NewReader(input, e)
    /\ rl = NoCall
    /\ rr = <<>>
    /\ conn = NoConn

\* one call ReadLine(br); further calls go on until the stream is used up
CallReadLine ==
    /\ rl.err = NoErr
    /\ LET r == ReadLine(br)
       IN  /\ rl' = [called |-> TRUE, from |-> br.buf, line |-> r.line, err |-> r.err]
           /\ br' = r.br
    /\ UNCHANGED <<input, rr, conn, srv, conns>>

NextLine == CallReadLine

SpecLine == InitLine /\ [][NextLine]_vars

----------------------------------------------------------------------------
(* Request parser driven over streams assembled from line segments *)

\* the pieces the request streams are assembled from: start lines with a
\* good, an empty, a missing and a refused method, a piece that ends in a
\* bare "\n", and the empty line; any terminated piece that follows a good
\* start line is read as a header line
Segments ==
    { GET \o <<SP, "/", SP, "H">> \o CRLF,
      GET \o <<SP>> \o CRLF,
      GET \o CRLF,
      <<SP, "/">> \o CRLF,
      GET \o <<"T", SP, "/">> \o CRLF,
      <<"g", "e", "t", SP, "/">> \o CRLF,
      <<"P", "O", "S", "T", SP, "/">> \o CRLF,
      <<"h", LF>>,
      CRLF }

RECURSIVE StreamsUpTo(_)
StreamsUpTo(n) ==
    IF n = 0 THEN {<<>>}
    ELSE LET S == StreamsUpTo(n - 1)
         IN  S \cup {s \o g : s \in S, g \in Segments}

InitReq ==
    /\ srv = NoServer
    /\ conns = <<>>
    /\ input \in StreamsUpTo(MaxSegs)
    /\ \E e \in StreamErrs : br = NewReader(input, e)
    /\ rl = NoCall
    /\ rr = <<>>
    /\ conn = NoConn

\* one call ReadRequest(br) on the shared reader; calls go on, as in
\* TestReadMultipleRequests, until one fails with the stream used up
CallReadRequest ==
    /\ IF rr = <<>> THEN TRUE
       ELSE br.buf # <<>> \/ rr[Len(rr)].err = NoErr
    /\ LET r == ReadRequest(br)
       IN  /\ rr' = Append(rr, [from |-> br.buf, req |-> r.req, err |-> r.err,
                                rest |-> r.br.buf])
           /\ br' = r.br
    /\ UNCHANGED <<input, rl, conn, srv, conns>>

NextReq == CallReadRequest

SpecReq == InitReq /\ [][NextReq]_vars

----------------------------------------------------------------------------
(* One connection served by HandleConnection *)

InitConn ==
    /\ srv = NoServer
    /\ conns = <<>>
    /\ input \in StreamsUpTo(MaxSegs)
    /\ \E e \in StreamErrs : conn = NewConn(input, e)
    /\ br = NewReader(<<>>, EOF)
    /\ rl = NoCall
    /\ rr = <<>>

\* one turn of the handler's loop on the connection
HandleConnection ==
    /\ conn.running
    /\ \E armOk, writeOk \in BOOLEAN :
           conn' = HandleConnectionLoop(TheServer, conn, armOk, writeOk)
    /\ UNCHANGED <<input, br, rl, rr, srv, conns>>

NextConn == HandleConnection

SpecConn == InitConn /\ [][NextConn]_vars

\* The handler's goroutine keeps being scheduled and a read under an armed
\* deadline returns, with bytes, the end of the stream, an I/O error or the
\* timeout: a loop turn that can be taken is taken.
FairSpecConn == InitConn /\ [][NextConn]_vars /\ WF_vars(HandleConnection)

----------------------------------------------------------------------------
(* The listener and the handlers of the connections it accepts *)

GoodRequest == GET \o <<SP>> \o CRLF \o CRLF
BadRequest == GET \o <<"T", SP, "/">> \o CRLF \o CRLF

\* the clients of the listener: one sends two requests and goes silent,
\* one sends a refused request between two good ones and closes, one
\* closes inside its second request, one is reset after its first request
Clients ==
    { [s |-> GoodRequest \o GoodRequest, e |-> ErrTimeout],
      [s |-> GoodRequest \o BadRequest \o GoodRequest, e |-> EOF],
      [s |-> GoodRequest \o GET \o <<SP>> \o CRLF, e |-> EOF],
      [s |-> GoodRequest, e |-> ErrIO] }

InitServe ==
    /\ srv = NewServer
    /\ conns = <<>>
    /\ input = <<>>
    /\ br = NewReader(<<>>, EOF)
    /\ rl = NoCall
    /\ rr = <<>>
    /\ conn = NoConn

\* s.ValidateServerSetup() and the check of its result
ValidateSetup ==
    /\ srv.pc = "validate"
    /\ \E st \in StatResults :
           srv' = SetupChecked([srv EXCEPT !.stat = st], ValidateServerSetup(st))
    /\ UNCHANGED <<input, br, rl, rr, conn, conns>>

\* net.Listen("tcp", s.Addr)
Listen ==
    /\ srv.pc = "listen"
    /\ \E ok \in BOOLEAN : srv' = Listened(srv, ok)
    /\ UNCHANGED <<input, br, rl, rr, conn, conns>>

\* one turn of the accept loop
Accept ==
    /\ srv.pc = "accept"
    /\ \/ /\ srv' = AcceptFailed(srv)
          /\ UNCHANGED conns
       \/ /\ Len(conns) < MaxConns
          /\ \E c \in Clients : conns' = Append(conns, Accept1(c.s, c.e))
          /\ srv' = Accepted(srv, Len(conns) + 1)
    /\ UNCHANGED <<input, br, rl, rr, conn>>

\* one loop turn of one of the HandleConnection tasks
Serve ==
    /\ \E i \in 1..Len(conns) :
           /\ i \in {srv.spawned[k] : k \in 1..Len(srv.spawned)}
           /\ conns[i].h.running
           /\ \E armOk, writeOk \in BOOLEAN :
                  conns' = Served(conns, i, armOk, writeOk)
    /\ UNCHANGED <<input, br, rl, rr, conn, srv>>

NextServe == ValidateSetup \/ Listen \/ Accept \/ Serve

SpecServe == InitServe /\ [][NextServe]_vars

----------------------------------------------------------------------------
(* Properties of the line reader *)

\* index of the "\r" of the first "\r\n" in s, 0 when s has none
FirstCRLF(s) ==
    LET Ends == {i \in 1..(Len(s) - 1) : s[i] = CR /\ s[i + 1] = LF}
    IN  IF Ends = {} THEN 0 ELSE CHOOSE i \in Ends : \A j \in Ends : i <= j

\* the bytes of s after its last "\r\n" (all of s when it has none)
TrailingBytes(s) ==
    LET Ends == {i \in 1..(Len(s) - 1) : s[i] = CR /\ s[i + 1] = LF}
    IN  IF Ends = {} THEN s
        ELSE LET k == CHOOSE i \in Ends : \A j \in Ends : j <= i
             IN  SubSeq(s, k + 2, Len(s))

EndsInCRorLF(s) == Len(s) > 0 /\ s[Len(s)] \in {CR, LF}

HasByte(s, b) == \E i \in 1..Len(s) : s[i] = b

\* what ReadLine does on bytes whose first "\r\n" is at k
ReturnsPrefixBeforeCRLF ==
    LET k == FirstCRLF(rl.from)
    IN  /\ rl.line = SubSeq(rl.from, 1, k - 1)
        /\ rl.err = NoErr
        /\ br.buf = SubSeq(rl.from, k + 2, Len(rl.from))

\* C8 as stated: on bytes whose first "\r\n" is at k, ReadLine returns the
\* prefix before it with no trailing "\r" or "\n", a nil error, and leaves
\* the cursor right after that "\r\n".
C8_AsStated ==
    (rl.called /\ FirstCRLF(rl.from) > 0)
        => (ReturnsPrefixBeforeCRLF /\ ~EndsInCRorLF(rl.line))

\* C8 amended: on bytes whose first "\r\n" is at k, ReadLine returns exactly
\* the prefix before it (that one "\r\n" removed and nothing else, so the
\* result ends in "\r" or "\n" exactly when the prefix does), a nil error,
\* and leaves the cursor right after that "\r\n".
C8_PrefixBeforeFirstCRLF ==
    (rl.called /\ FirstCRLF(rl.from) > 0)
        => /\ ReturnsPrefixBeforeCRLF
           /\ FirstCRLF(rl.line) = 0
           /\ Cursor(br) = Len(input) - Len(rl.from) + FirstCRLF(rl.from) + 1

\* a line with a bare "\n" inside was completed at the first "\r\n"
C8_Witness ==
    /\ rl.called
    /\ FirstCRLF(rl.from) > 1
    /\ HasByte(rl.line, LF)
    /\ rl.err = NoErr

\* C9: when the remaining bytes hold no "\r\n", ReadLine reports no line: it
\* returns all of them with the stream's error, and the stream is used up;
\* it fails only then.  The text returned with the error is the unterminated
\* tail of the stream: empty at a clean close, the truncated line otherwise.
C9_NoCRLFGivesRestAndError ==
    rl.called =>
        /\ (FirstCRLF(rl.from) = 0) <=> (rl.err # NoErr)
        /\ (FirstCRLF(rl.from) = 0) =>
                /\ rl.err = br.err
                /\ rl.line = rl.from
                /\ rl.line = TrailingBytes(input)
                /\ br.buf = <<>>

\* a stream that ended in the middle of a line holding a bare "\n"
C9_Witness ==
    /\ rl.called
    /\ rl.err = EOF
    /\ HasByte(rl.line, LF)
    /\ Len(rl.from) < Len(input)

----------------------------------------------------------------------------
(* Properties of the request parser *)

Calls == 1..Len(rr)

\* the call just made; every call is the last one in the state it leads to
LastCall == {Len(rr)} \ {0}

\* the first line of s and what follows it, where s has a first "\r\n"
HasFirstLine(s) == FirstCRLF(s) > 0
FirstLine(s) == SubSeq(s, 1, FirstCRLF(s) - 1)
AfterFirstLine(s) == SubSeq(s, FirstCRLF(s) + 2, Len(s))

\* the bytes of a line before its first space
MethodToken(line) ==
    LET At == {j \in 1..Len(line) : line[j] = SP}
    IN  SubSeq(line, 1, (CHOOSE j \in At : \A m \in At : j <= m) - 1)

\* the bytes of a line after its first space
Remainder(line) == SubSeq(line, Len(MethodToken(line)) + 2, Len(line))

\* s begins with a line that has a space
HasStartLine(s) == HasFirstLine(s) /\ HasByte(FirstLine(s), SP)

\* s begins with a start line whose method is GET
HasGETLine(s) == HasStartLine(s) /\ MethodToken(FirstLine(s)) = GET

\* number of bytes of s up to and including its first empty line, 0 when
\* s has no empty line
RECURSIVE BlankLineEnd(_)
BlankLineEnd(s) ==
    LET k == FirstCRLF(s)
    IN  IF k = 0 THEN 0
        ELSE IF k = 1 THEN 2
        ELSE LET e == BlankLineEnd(SubSeq(s, k + 2, Len(s)))
             IN  IF e = 0 THEN 0 ELSE k + 1 + e

\* number of bytes of the complete GET request s begins with, 0 when it
\* begins with none
OneRequestLen(s) ==
    IF HasGETLine(s) /\ BlankLineEnd(AfterFirstLine(s)) > 0
    THEN FirstCRLF(s) + 1 + BlankLineEnd(AfterFirstLine(s))
    ELSE 0

\* number of complete GET requests s begins with
RECURSIVE ValidPrefixCount(_)
ValidPrefixCount(s) ==
    IF OneRequestLen(s) = 0 THEN 0
    ELSE 1 + ValidPrefixCount(SubSeq(s, OneRequestLen(s) + 1, Len(s)))

ReturnedGET(c) ==
    /\ c.req # NilReq
    /\ c.req.Method = GET
    /\ c.err = NoErr

ReturnedError(c) ==
    /\ c.req = NilReq
    /\ c.err # NoErr

IsBadString(e, what) == e.kind = "errorString" /\ e.what = what

\* C1: every call returns either a Request whose Method is GET with a nil
\* error, or a nil Request with a non-nil error; no other Request comes out.
C1_GETRequestOrError ==
    \A i \in LastCall : ReturnedGET(rr[i]) \/ ReturnedError(rr[i])

\* one reader gave a GET request and then refused a start line whose method
\* had been assigned
C1_Witness ==
    \E i, j \in Calls :
        /\ ReturnedGET(rr[i])
        /\ HasStartLine(rr[j].from)
        /\ IsBadString(rr[j].err, "invalid method")

\* C2: of a start line that splits into a method token and a remainder the
\* method is accepted only if the token is GET; any other token makes the
\* call fail with the invalid-method error that carries the token.
C2_OnlyGETAccepted ==
    \A i \in LastCall :
        HasStartLine(rr[i].from) =>
            LET token == MethodToken(FirstLine(rr[i].from))
            IN  IF token = GET
                THEN rr[i].err.kind # "errorString"
                ELSE /\ rr[i].req = NilReq
                     /\ rr[i].err = badStringError("invalid method", token)
                     /\ rr[i].err.val = <<"\"">> \o token \o <<"\"">>
                            \/ HasByte(token, LF) \/ HasByte(token, CR)

\* a lower-case get, a GETT and a POST were each refused
C2_Witness ==
    \E i \in Calls :
        /\ HasStartLine(rr[i].from)
        /\ MethodToken(FirstLine(rr[i].from)) \in
               {<<"g", "e", "t">>, <<"G", "E", "T", "T">>, <<"P", "O", "S", "T">>}
        /\ IsBadString(rr[i].err, "invalid method")

\* C3: the malformed-start-line error, carrying the raw line, is returned
\* exactly when the first line has no space, the empty first line included;
\* a first line with a space whose first token is not GET is refused as an
\* invalid method.
C3_MalformedIffNoSpace ==
    \A i \in LastCall :
        LET s == rr[i].from
        IN  /\ IsBadString(rr[i].err, "malformed start line")
                <=> (HasFirstLine(s) /\ ~HasByte(FirstLine(s), SP))
            /\ (HasFirstLine(s) /\ ~HasByte(FirstLine(s), SP))
                => /\ rr[i].err = badStringError("malformed start line", FirstLine(s))
                   /\ rr[i].req = NilReq
            /\ (HasStartLine(s) /\ MethodToken(FirstLine(s)) # GET)
                => IsBadString(rr[i].err, "invalid method")

\* a stream that begins with "\r\n" was refused as malformed
C3_Witness ==
    \E i \in Calls :
        /\ HasFirstLine(rr[i].from)
        /\ FirstLine(rr[i].from) = <<>>
        /\ IsBadString(rr[i].err, "malformed start line")

\* the split on the first space gives two non-empty parts
TwoNonEmptyParts(line) ==
    /\ HasByte(line, SP)
    /\ MethodToken(line) # <<>>
    /\ Remainder(line) # <<>>

\* C4 as stated: a start line that does not split into exactly two non-empty
\* parts fails with the malformed-start-line error carrying the raw line.
C4_AsStated ==
    \A i \in LastCall :
        (HasFirstLine(rr[i].from) /\ ~TwoNonEmptyParts(FirstLine(rr[i].from)))
            => rr[i].err = badStringError("malformed start line", FirstLine(rr[i].from))

\* C4 amended: a start line that does not split into two parts (it has no
\* space) fails with the malformed-start-line error carrying the raw line.
\* The parts may be empty: an empty method is refused with the
\* invalid-method error carrying the empty token, and "GET " with an empty
\* remainder passes the start-line checks (the call then succeeds when the
\* empty line follows and returns the read error otherwise).
C4_TwoPartsMayBeEmpty ==
    \A i \in LastCall :
        LET s == rr[i].from
        IN  HasFirstLine(s) =>
              /\ ~HasByte(FirstLine(s), SP)
                    => rr[i].err = badStringError("malformed start line", FirstLine(s))
              /\ (HasByte(FirstLine(s), SP) /\ MethodToken(FirstLine(s)) = <<>>)
                    => rr[i].err = badStringError("invalid method", <<>>)
              /\ FirstLine(s) = GET \o <<SP>>
                    => IF BlankLineEnd(AfterFirstLine(s)) > 0
                       THEN ReturnedGET(rr[i])
                       ELSE rr[i].err = br.err

\* a start line with an empty method was refused and "GET " was accepted
C4_Witness ==
    /\ \E i \in Calls :
          /\ HasStartLine(rr[i].from)
          /\ MethodToken(FirstLine(rr[i].from)) = <<>>
          /\ rr[i].err # NoErr
    /\ \E i \in Calls :
          /\ HasFirstLine(rr[i].from)
          /\ FirstLine(rr[i].from) = GET \o <<SP>>
          /\ ReturnedGET(rr[i])

\* C5: after a GET start line the call succeeds exactly when an empty line
\* is read, whatever the lines before it hold; when the stream fails or ends
\* before the empty line, the call returns the stream's error and no Request.
C5_HeadersSkippedToBlankLine ==
    \A i \in LastCall :
        HasGETLine(rr[i].from) =>
            IF BlankLineEnd(AfterFirstLine(rr[i].from)) > 0
            THEN ReturnedGET(rr[i])
            ELSE /\ rr[i].req = NilReq
                 /\ rr[i].err = br.err
                 /\ rr[i].rest = <<>>

\* a request went through with a header line holding a bare "\n"
C5_Witness ==
    \E i \in Calls :
        /\ ReturnedGET(rr[i])
        /\ HasByte(SubSeq(AfterFirstLine(rr[i].from), 1,
                           BlankLineEnd(AfterFirstLine(rr[i].from)) - 2), LF)

\* C6: a successful call consumes the bytes of one request and no more: the
\* cursor is left right after the first empty line that follows the start
\* line.  On a stream that begins with n complete GET requests the first n
\* calls each return Request{GET}, and the call after them, when the bytes
\* that follow are not a complete GET request, returns an error.
C6_ConsumesOneRequest ==
    \A i \in LastCall :
        LET s == rr[i].from
        IN  /\ rr[i].err = NoErr
                => /\ OneRequestLen(s) > 0
                   /\ rr[i].rest = SubSeq(s, OneRequestLen(s) + 1, Len(s))
            /\ i <= ValidPrefixCount(input) => ReturnedGET(rr[i])
            /\ i = ValidPrefixCount(input) + 1 => ReturnedError(rr[i])

\* two requests back to back on one reader were both returned
C6_Witness ==
    /\ Len(rr) >= 2
    /\ ReturnedGET(rr[1])
    /\ ReturnedGET(rr[2])
    /\ rr[2].from = rr[1].rest

\* C7: an error of the line reader on the start line is returned as it is;
\* a call made at the clean end of the stream returns the end-of-stream
\* error, not a parse error.
C7_StartLineReadErrorUnchanged ==
    \A i \in LastCall :
        ~HasFirstLine(rr[i].from) =>
            /\ rr[i].err = br.err
            /\ rr[i].req = NilReq
            /\ (rr[i].from = <<>> /\ br.err = EOF) => rr[i].err = EOF

\* the second call, made right after one valid request, met the end of the
\* stream
C7_Witness ==
    /\ Len(rr) = 2
    /\ ReturnedGET(rr[1])
    /\ rr[2].from = <<>>
    /\ rr[2].err = EOF

\* C20: the start line is checked before any header line is read: a call
\* that fails with the malformed-start-line or the invalid-method error has
\* consumed the start line and its "\r\n" and nothing more, so a start line
\* that is not a GET one is refused with that error whatever follows it
\* (headers cut short or missing included), and the next call on the reader
\* begins at the first byte after the refused start line.
C20_RejectedAfterStartLineOnly ==
    \A i \in LastCall :
        LET s == rr[i].from
        IN  /\ (HasFirstLine(s) /\ ~HasGETLine(s)) =>
                  /\ rr[i].err.kind = "errorString"
                  /\ rr[i].rest = AfterFirstLine(s)
                  /\ br.buf = AfterFirstLine(s)
            /\ rr[i].err.kind = "errorString" =>
                  /\ HasFirstLine(s) /\ ~HasGETLine(s)
                  /\ Cursor(br) = Len(input) - Len(s) + FirstCRLF(s) + 1
            /\ i > 1 => s = rr[i - 1].rest

\* a GETT start line with its header block cut short was refused as an
\* invalid method, and the next call began at the header line left unread
C20_Witness ==
    \E i \in Calls :
        /\ i > 1
        /\ IsBadString(rr[i - 1].err, "invalid method")
        /\ AfterFirstLine(rr[i - 1].from) # <<>>
        /\ BlankLineEnd(AfterFirstLine(rr[i - 1].from)) = 0
        /\ rr[i].from = AfterFirstLine(rr[i - 1].from)

----------------------------------------------------------------------------
(* Properties of the connection handler *)

Line200 == <<"HTTP/1.1", " ", "200", " ", "OK", "\r\n">>

Events == 1..Len(conn.ev)

IsGoodRead(e) == e.op = "read" /\ e.ok
Is200Write(e) == e.op = "write" /\ e.arg = Line200

\* the lines of the writes of ev that did not fail, in order
RECURSIVE Delivered(_)
Delivered(ev) ==
    IF ev = <<>> THEN <<>>
    ELSE IF Head(ev).op = "write" /\ Head(ev).ok
         THEN <<Head(ev).arg>> \o Delivered(Tail(ev))
         ELSE Delivered(Tail(ev))

Line405 == <<"HTTP/1.1", " ", "405", " ", "Method Not Allowed", "\r\n">>

Is405Write(e) == e.op = "write" /\ e.arg = Line405

\* the bytes left of the stream after the complete GET requests it begins with
RECURSIVE AfterValidPrefix(_)
AfterValidPrefix(s) ==
    IF OneRequestLen(s) = 0 THEN s
    ELSE AfterValidPrefix(SubSeq(s, OneRequestLen(s) + 1, Len(s)))

\* the first thing after the complete GET requests is a line that is not a
\* GET start line
BadLineFollows(s) ==
    HasFirstLine(AfterValidPrefix(s)) /\ ~HasGETLine(AfterValidPrefix(s))

\* SetReadDeadline never failed on the connection
NoDeadlineFailure == \A i \in Events : conn.ev[i].op = "deadline" => conn.ev[i].ok

Count(P(_)) == Cardinality({i \in Events : P(conn.ev[i])})

\* C11: a parse that fails with an error that is neither end-of-stream nor a
\* timeout (malformed start line, refused method, other I/O failure) is
\* followed by one write of the 405 status line and the close, and nothing
\* happens on the connection afterwards, whatever bytes are left unread; a
\* 405 is written in no other case.  So a connection whose valid requests
\* are followed by a bad line, or whose stream fails with an I/O error, is
\* closed with exactly one 405.
C11_ErrorGets405AndClose ==
    LET E == conn.ev
        Bad(e) == e.op = "read" /\ e.arg \in {"errorString", "io"}
    IN  /\ \A i \in Events :
              /\ Bad(E[i]) =>
                    /\ Len(E) = i + 2
                    /\ Is405Write(E[i + 1])
                    /\ E[i + 2].op = "close"
                    /\ conn.closed /\ ~conn.running
              /\ Is405Write(E[i]) => (i > 1 /\ Bad(E[i - 1]))
        /\ Count(Is405Write) <= 1
        /\ (conn.closed /\ NoDeadlineFailure) =>
              (Count(Is405Write) = 1
                 <=> (BadLineFollows(input) \/ conn.br.err = ErrIO))

\* a refused start line was answered with 405 and the connection closed
\* with a complete GET request left unread
C11_Witness ==
    /\ conn.closed
    /\ Count(Is405Write) = 1
    /\ OneRequestLen(conn.br.buf) > 0

\* C12: a parse that ends with the end-of-stream error is followed by the
\* close and nothing else: no response is written for it.  A stream that
\* ends, after its complete requests, between requests or inside a request
\* (in its start line or before its empty line) gets no 405.
C12_EOFClosesSilently ==
    LET E == conn.ev
    IN  /\ \A i \in Events :
              (E[i].op = "read" /\ E[i].arg = "EOF") =>
                  /\ Len(E) = i + 1
                  /\ E[i + 1].op = "close"
                  /\ conn.closed /\ ~conn.running
        /\ (conn.closed /\ NoDeadlineFailure /\ conn.br.err = EOF
                /\ ~BadLineFollows(input))
              => /\ Count(Is405Write) = 0
                 /\ E[Len(E) - 1] = Event("read", "EOF", FALSE)
                 /\ Count(Is200Write) = ValidPrefixCount(input)

\* the stream ended after a GET start line and part of a header: the
\* connection was closed and no 405 was written
C12_Witness ==
    /\ conn.closed
    /\ conn.br.err = EOF
    /\ HasGETLine(AfterValidPrefix(input))
    /\ AfterFirstLine(AfterValidPrefix(input)) # <<>>
    /\ NoDeadlineFailure
    /\ Count(Is405Write) = 0

\* C13: the read deadline is armed, five seconds ahead, before every parse
\* and nowhere else: each read follows directly a deadline that was set,
\* each deadline that was set is followed directly by one read, so one
\* arming covers all the line reads of a request.  A parse that ends with a
\* timeout is followed by the close and no write; a deadline that cannot be
\* set is followed by the close, with no read and no write.
C13_DeadlineBeforeEveryParse ==
    LET E == conn.ev
        Armed(e) == e.op = "deadline" /\ e.ok
    IN  /\ \A i \in Events :
              /\ E[i].op = "read" => (i > 1 /\ Armed(E[i - 1]))
              /\ Armed(E[i]) => (i < Len(E) /\ E[i + 1].op = "read")
              /\ E[i].op = "deadline" =>
                    /\ E[i].arg = 5
                    /\ i = 1 \/ Is200Write(E[i - 1])
              /\ (E[i].op = "deadline" /\ ~E[i].ok) =>
                    /\ Len(E) = i + 1
                    /\ E[i + 1].op = "close"
                    /\ conn.closed /\ ~conn.running
              /\ (E[i].op = "read" /\ E[i].arg = "timeout") =>
                    /\ Len(E) = i + 1
                    /\ E[i + 1].op = "close"
                    /\ conn.closed /\ ~conn.running
        /\ Count(Armed) = Cardinality({i \in Events : E[i].op = "read"})

\* after one answered request the second parse timed out under a deadline
\* of its own and the connection was closed
C13_Witness ==
    /\ conn.closed
    /\ Len(conn.ev) = 6
    /\ Is200Write(conn.ev[3])
    /\ conn.ev[4] = Event("deadline", 5, TRUE)
    /\ conn.ev[5] = Event("read", "timeout", FALSE)

RECURSIVE Codes(_)
Codes(ev) ==
    IF ev = <<>> THEN <<>>
    ELSE IF Head(ev).op = "write"
         THEN <<Head(ev).arg[3]>> \o Codes(Tail(ev))
         ELSE Codes(Tail(ev))

\* C19: while the handler runs the connection is not closed; once it has
\* returned the connection was closed exactly once, by the last call made on
\* it, so nothing is read, armed or written after the close.  The responses
\* of a connection are any number of 200 lines followed by at most one 405
\* line, which is then the last call before the close.
C19_ClosedOnceAndLast ==
    LET E == conn.ev
        W == Codes(E)
        IsClose(e) == e.op = "close"
    IN  /\ conn.running => (~conn.closed /\ Count(IsClose) = 0)
        /\ ~conn.running =>
              /\ conn.closed
              /\ Count(IsClose) = 1
              /\ E[Len(E)].op = "close"
        /\ \A i \in 1..Len(W) : W[i] = "200" \/ (W[i] = "405" /\ i = Len(W))
        /\ \A i \in Events : Is405Write(E[i]) => (i + 1 = Len(E) /\ IsClose(E[i + 1]))

\* two 200 lines and a 405 were written before the one close
C19_Witness ==
    /\ ~conn.running
    /\ Codes(conn.ev) = <<"200", "200", "405">>

----------------------------------------------------------------------------
(* Properties of the listener and its handlers *)

Conns == 1..Len(conns)

\* the connection c after a handler alone on it has taken loop turns with
\* the outcomes env
RECURSIVE Replay(_, _)
Replay(c, env) ==
    IF env = <<>> THEN c
    ELSE Replay(HandleConnectionLoop(TheServer, c, Head(env)[1], Head(env)[2]), Tail(env))

C16_ValidatedBeforeListen ==
    /\ (srv.stat.err = ErrNotExist \/ srv.stat.fi = "file") =>
          /\ srv.pc = "returned"
          /\ srv.err # NoErr
          /\ ~srv.bound
          /\ conns = <<>>
    /\ (srv.pc \in {"listen", "accept"} \/ srv.bound \/ conns # <<>>) =>
          /\ srv.stat = [fi |-> "dir", err |-> NoErr]
          /\ ValidateServerSetup(srv.stat).err = NoErr

\* ListenAndServe returned because the document root is a file
C16_Witness ==
    /\ srv.pc = "returned"
    /\ srv.stat.fi = "file"

\* C18: once the address is bound ListenAndServe stays in its accept loop:
\* no step, a failed Accept included, takes it out of the loop, and each
\* connection accepted has exactly one HandleConnection task, started in
\* the order of the accepts.
C18_AcceptsForever ==
    /\ [](srv.bound => (srv.pc = "accept" /\ srv.err = NoErr))
    /\ [](srv.spawned = [k \in Conns |-> k])
    /\ [][(srv.pc = "accept") => (srv'.pc = "accept")]_vars
    /\ [][(srv.pc = "accept" /\ srv'.failed /\ ~srv.failed)
             => (srv'.spawned = srv.spawned /\ conns' = conns)]_vars

\* an Accept failed and a connection was accepted and dispatched afterwards
C18_Witness ==
    /\ srv.failed
    /\ srv.accept = "ok"
    /\ srv.spawned = <<1, 2>>

\* whether ListenAndServe has called ValidateServerSetup
Validated == srv.pc \notin {"none", "validate"}

\* C21: ValidateServerSetup is total over every outcome of the stat of the
\* document root: it never crashes, it returns nil only when the stat
\* succeeded on a directory, and it returns an error in every other case,
\* a stat that failed for a reason other than 'does not exist' included.
C21_ValidateIsTotal ==
    Validated =>
        /\ srv.pc # "panic"
        /\ ~ValidateServerSetup(srv.stat).panic
        /\ (ValidateServerSetup(srv.stat).err = NoErr)
              <=> (srv.stat = [fi |-> "dir", err |-> NoErr])
        /\ (srv.stat # [fi |-> "dir", err |-> NoErr])
              => (srv.pc = "returned" /\ srv.err # NoErr)

====
